---- MODULE Spec2Model ----
(***************************************************************************)
(* Connection racing and handshake of crust's peer connect                 *)
(* (src/net/peer/connect/connect.rs).  One `connect` call races direct     *)
(* connections, a rendezvous connection and incoming handshakes; the       *)
(* futures-0.1 combinators it is built from are modelled by what one poll  *)
(* of them does: `and_then` on a stream holds one in-flight future and     *)
(* does not poll its upstream while it holds one, `select` merges two      *)
(* streams and ends when both have ended, `first_ok` returns the first     *)
(* item and collects the errors.                                           *)
(***************************************************************************)
EXTENDS Integers, Sequences, FiniteSets, TLC

\* Bounds of the model.
MaxAddrs == 2
MaxIncoming == 2
MaxChannels == 2

\* Value domains (opaque identifiers).
Uids == {"u1", "u2"}
NameHashes == {"n1", "n2"}
Infos == {"info"}
None == "None"

ConnectRequests == [uid : Uids, name_hash : NameHashes]
NoRequest == [uid |-> None, name_hash |-> None]

\* HandshakeMessage: the Connect variant, and any other variant.
ConnectMsg(req) == [kind |-> "Connect", req |-> req]
OtherMsg == [kind |-> "Other", req |-> NoRequest]
\* msg_opt = None: the connection was closed before a message arrived.
ClosedMsg == [kind |-> "Closed", req |-> NoRequest]
NoMsg == [kind |-> None, req |-> NoRequest]

\* Channels: one per direct address, one for the rendezvous connection,
\* one per item delivered on the incoming-handshake stream.
DirectChan(i) == <<"direct", i>>
P2pChan == <<"p2p", 0>>
IncomingChan(k) == <<"incoming", k>>
NoChan == <<"none", 0>>
DirectChans == {DirectChan(i) : i \in 1..MaxAddrs}
IncomingChans == {IncomingChan(k) : k \in 1..MaxIncoming}
OutgoingChans == DirectChans \cup {P2pChan}
Chans == OutgoingChans \cup IncomingChans

\* SingleConnectionError and ConnectError values; a and b are the payload.
Err(kind, a, b) == [kind |-> kind, a |-> a, b |-> b]
Ok == Err("Ok", None, None)
NoOutcome == Err(None, None, None)
\* The value of connect's future: pending, Ok(Peer) or a ConnectError.
Result(kind, v, chan, uid) == [kind |-> kind, v |-> v, chan |-> chan, uid |-> uid]
NoResult == Result(None, <<>>, NoChan, None)
\* format!("{}", uid): the Display form of an id.
Format(uid) == "uid:" \o uid

VARIABLES
    pc,         \* "start" | "racing" | "building" | "done": where connect is
    result,     \* what connect's future resolved to
    our_id, their_id, name_hash,    \* our_info.id, their_info.id, name_hash
    naddrs,     \* length of their_info.for_direct
    our_p2p,    \* our_info.p2p_conn_info is Some
    their_p2p,  \* their_info.p2p_conn_info: None or the metadata bytes
    remote,     \* environment: how the far end of each outgoing channel behaves
    direct,     \* state of each TcpStream::connect future
    readyQ,     \* futures_unordered: completed attempts, in completion order
    p2p,        \* state of the connect_p2p future
    out,        \* the connection held by the outgoing and_then chain
    peer_rx,    \* the incoming-handshake receiver: queued items, closed flag
    inc,        \* the send future held by the incoming and_then chain
    errors,     \* first_ok's vector of collected errors
    handed,     \* arguments of the calls of peer::from_handshaken_socket
    task,       \* the task spawned by start_rendezvous_connect
    oneshot,    \* the one-shot result channel conn_tx / conn_rx
    relay,      \* the rendezvous relay channel as seen from connect_p2p
    started,    \* addresses TcpStream::connect was called for
    sent,       \* messages this side has sent on each channel
    recvd,      \* the handshake message received on each channel
    validated,  \* result of validate_connect_request on each channel
    yielded,    \* channels the handshakers yielded as validated, in order
    taken,      \* number of items taken from the incoming stream
    delivered,  \* number of items the demultiplexer has delivered
    failed,     \* the attempts that failed, in the order they failed
    pa,         \* a PaAddr being formatted and parsed
    pair        \* two peers connecting to each other

connVars == <<pc, result, our_id, their_id, name_hash, naddrs, our_p2p,
              their_p2p, remote, direct, readyQ, p2p, out, peer_rx, inc,
              errors, handed, task, oneshot, relay, started, sent, recvd,
              validated, yielded, taken, delivered, failed>>
vars == <<connVars, pa, pair>>

inputs == <<our_id, their_id, name_hash, naddrs, our_p2p, their_p2p, remote>>

----------------------------------------------------------------------------
\* Protocol-agnostic addresses (src/net/protocol_agnostic/addr.rs).  A text
\* is the sequence of its lexical pieces: a scheme word, "://", a host word
\* or a bracketed IPv6 literal, ":", the decimal digits of the port, "/".

Ipv4Lits == {"127.0.0.1", "10.0.0.2"}
Ipv6Lits == {"::1", "fe80::1"}
IpAddrs == [v : {4}, lit : Ipv4Lits] \cup [v : {6}, lit : Ipv6Lits]
NoIp == [v |-> 0, lit |-> None]
Ports == {80, 45666}
PaAddrs == [tag : {"Tcp", "Utp"}, ip : IpAddrs, port : Ports]
NoAddr == [tag |-> None, ip |-> NoIp, port |-> 0]

Digits == <<"0", "1", "2", "3", "4", "5", "6", "7", "8", "9">>
DigitSet == {Digits[k] : k \in 1..Len(Digits)}
DigitVal(c) == (CHOOSE k \in 1..Len(Digits) : Digits[k] = c) - 1

\* Display of a u16: its decimal digits, without leading zeros.
RECURSIVE PortDisplay(_)
PortDisplay(n) ==
    IF n < Len(Digits) THEN <<Digits[n + 1]>>
    ELSE Append(PortDisplay(n \div Len(Digits)), Digits[(n % Len(Digits)) + 1])

\* The url parser reads the port as a decimal number.
RECURSIVE PortValue(_)
PortValue(ds) ==
    IF ds = <<>> THEN 0
    ELSE PortValue(SubSeq(ds, 1, Len(ds) - 1)) * Len(Digits)
         + DigitVal(ds[Len(ds)])

\* Display of a SocketAddr: "ip:port", an IPv6 address in brackets.
SocketAddrDisplay(ip, port) ==
    IF ip.v = 6
    THEN <<"[", ip.lit, "]", ":">> \o PortDisplay(port)
    ELSE <<ip.lit, ":">> \o PortDisplay(port)

\* impl fmt::Display for PaAddr
Fmt(addr) ==
    IF addr.tag = "Tcp"
    THEN <<"tcp", "://">> \o SocketAddrDisplay(addr.ip, addr.port)
    ELSE <<"utp", "://">> \o SocketAddrDisplay(addr.ip, addr.port)

\* Url::parse: the scheme is lower-cased; the host is kept as it is written
\* (host_str of an IPv6 host has its brackets); the path is split off.
SchemeWords == {"tcp", "utp", "TCP", "udp"}
Lower(w) == IF w = "TCP" THEN "tcp" ELSE w
NoUrl == [ok |-> FALSE, scheme |-> None, host |-> <<>>, port |-> -1]
Url(scheme, host, port) ==
    [ok |-> TRUE, scheme |-> scheme, host |-> host, port |-> port]
Upto(s, w) ==
    IF \E k \in 1..Len(s) : s[k] = w
    THEN SubSeq(s, 1, (CHOOSE k \in 1..Len(s) :
                          s[k] = w /\ \A j \in 1..(k - 1) : s[j] # w) - 1)
    ELSE s
UrlPort(after, scheme, host) ==
    IF after = <<>> \/ after = <<":">> THEN Url(scheme, host, -1)
    ELSE IF after[1] = ":"
            /\ \A k \in 2..Len(after) : after[k] \in DigitSet
            /\ PortValue(Tail(after)) < 65536
         THEN Url(scheme, host, PortValue(Tail(after)))
         ELSE NoUrl
UrlParse(s) ==
    IF Len(s) < 2 \/ s[1] \notin SchemeWords \/ s[2] # "://" THEN NoUrl
    ELSE LET scheme == Lower(s[1])
             authority == Upto(SubSeq(s, 3, Len(s)), "/")
         IN  IF authority = <<>> \/ authority[1] = ":" THEN NoUrl
             ELSE IF authority[1] = "["
                  THEN IF Len(authority) >= 3 /\ authority[2] \in Ipv6Lits
                          /\ authority[3] = "]"
                       THEN UrlPort(SubSeq(authority, 4, Len(authority)),
                                    scheme, SubSeq(authority, 1, 3))
                       ELSE NoUrl
                  ELSE UrlPort(Tail(authority), scheme, <<authority[1]>>)

\* IpAddr::from_str: a plain IPv4 or IPv6 literal, nothing around it.
IpAddrFromStr(host) ==
    IF Len(host) = 1 /\ host[1] \in Ipv4Lits THEN [v |-> 4, lit |-> host[1]]
    ELSE IF Len(host) = 1 /\ host[1] \in Ipv6Lits
         THEN [v |-> 6, lit |-> host[1]]
         ELSE NoIp

ParseOk(addr) == [ok |-> TRUE, addr |-> addr, err |-> None]
ParseErr(e) == [ok |-> FALSE, addr |-> NoAddr, err |-> e]
NoParse == ParseErr(None)

\* addr_from_url
AddrFromUrl(tag, url) ==
    IF url.host = <<>> THEN ParseErr("MalformedUrl")
    ELSE IF IpAddrFromStr(url.host) = NoIp THEN ParseErr("MalformedHost")
    ELSE IF url.port < 0 THEN ParseErr("MissingPort")
    ELSE ParseOk([tag |-> tag, ip |-> IpAddrFromStr(url.host),
                  port |-> url.port])

\* impl FromStr for PaAddr
FromStr(s) ==
    LET url == UrlParse(s)
    IN  IF ~url.ok THEN ParseErr("MalformedUrl")
        ELSE IF url.scheme = "tcp" THEN AddrFromUrl("Tcp", url)
        ELSE IF url.scheme = "utp" THEN AddrFromUrl("Utp", url)
        ELSE ParseErr("UnknownScheme")

\* The texts given to the parser.
HostForms ==
    {<<h>> : h \in Ipv4Lits \cup {"example.com"}}
    \cup {<<"[", h, "]">> : h \in Ipv6Lits} \cup {<<>>}
PortForms ==
    {<<>>} \cup {<<":">> \o ds :
                   ds \in {<<"8", "0">>, <<"0", "8", "0">>,
                           <<"4", "5", "6", "6", "6">>}}
Texts ==
    {<<w, "://">> \o h \o p \o t :
        w \in SchemeWords, h \in HostForms, p \in PortForms,
        t \in {<<>>, <<"/">>}}

NoPa == [input |-> None, addr |-> NoAddr, text |-> <<>>, parsed |-> NoParse,
         out |-> <<>>, step |-> 0]

\* Two peers that call connect toward each other.  Each side dials the
\* other's one direct address; the connection a side dials is named after
\* that side.  The state of both calls is the record pair.
Sides == {"A", "B"}
Other(s) == IF s = "A" THEN "B" ELSE "A"
PairState(p, dial, nh) ==
    [pc       |-> [s \in Sides |-> p],
     dial     |-> dial,
     nh       |-> nh,
     out      |-> [s \in Sides |-> "connecting"],
     req      |-> [s \in Sides |-> "none"],
     rep      |-> [s \in Sides |-> "none"],
     rx       |-> [s \in Sides |-> <<>>],
     inc      |-> [s \in Sides |-> "none"],
     errs     |-> [s \in Sides |-> <<>>],
     accepted |-> [s \in Sides |-> None]]
NoPair == PairState("unused", [s \in Sides |-> "unreachable"],
                   [s \in Sides |-> "n1"])

----------------------------------------------------------------------------
\* Mutant: the network id is not compared.
ValidateNoNameHash(expected_uid, our_name_hash, connect_request) ==
    IF connect_request.uid # expected_uid
    THEN Err("InvalidUid", Format(connect_request.uid), Format(expected_uid))
    ELSE Ok

\* Mutant: the received and the expected id are swapped in the error.
ValidateSwappedUids(expected_uid, our_name_hash, connect_request) ==
    IF connect_request.uid # expected_uid
    THEN Err("InvalidUid", Format(expected_uid), Format(connect_request.uid))
    ELSE IF our_name_hash # connect_request.name_hash
         THEN Err("InvalidNameHash", connect_request.name_hash, None)
         ELSE Ok

\* Mutant: the network id is compared before the peer id.
ValidateNameHashFirst(expected_uid, our_name_hash, connect_request) ==
    IF our_name_hash # connect_request.name_hash
    THEN Err("InvalidNameHash", connect_request.name_hash, None)
    ELSE IF connect_request.uid # expected_uid
         THEN Err("InvalidUid", Format(connect_request.uid),
                  Format(expected_uid))
         ELSE Ok

\* validate_connect_request
Validate(expected_uid, our_name_hash, connect_request) ==
    IF connect_request.uid # expected_uid
    THEN Err("InvalidUid", Format(connect_request.uid), Format(expected_uid))
    ELSE IF our_name_hash # connect_request.name_hash
         THEN Err("InvalidNameHash", connect_request.name_hash, None)
         ELSE Ok

\* ConnectRequest { uid: our_info.id, name_hash }
OurConnectRequest == [uid |-> our_id, name_hash |-> name_hash]

\* Mutant: the error is pushed twice.
PushErrorTwice(v, e) == Append(Append(v, e), e)

\* Mutant: the newest error is put in front.
PushErrorFront(v, e) == <<e>> \o v

\* first_ok: an error of the merged stream is pushed onto the vector
PushError(v, e) == Append(v, e)

\* Number of candidates of one run: the direct addresses, the rendezvous
\* connection when the rendezvous yields one, the incoming handshakes.
Candidates(n, ours, theirs, rdv, d) ==
    n + (IF ours /\ theirs # None /\ rdv # "unreachable" THEN 1 ELSE 0) + d

InitConnect ==
    /\ pc = "start"
    /\ result = NoResult
    /\ our_id = "u1"
    /\ their_id \in Uids
    /\ name_hash = "n1"
    /\ naddrs \in 0..MaxAddrs
    /\ our_p2p \in BOOLEAN
    /\ their_p2p \in {None} \cup Infos
    /\ remote \in [OutgoingChans -> {"unreachable", "honest", "faulty"}]
    /\ \A i \in 1..MaxAddrs : i > naddrs => remote[DirectChan(i)] = "unreachable"
    /\ (~our_p2p \/ their_p2p = None) => remote[P2pChan] = "unreachable"
    /\ Candidates(naddrs, our_p2p, their_p2p, remote[P2pChan], 0) <= MaxChannels
    /\ direct = [i \in 1..MaxAddrs |-> "idle"]
    /\ readyQ = <<>>
    /\ p2p = "unused"
    /\ out = [chan |-> NoChan, stage |-> "idle"]
    /\ peer_rx = [queue |-> <<>>, closed |-> FALSE]
    /\ inc = NoChan
    /\ errors = <<>>
    /\ handed = <<>>
    /\ task = IF our_p2p THEN "running" ELSE "absent"
    /\ oneshot = [value |-> NoOutcome, rx_dropped |-> FALSE, sends |-> 0, received |-> 0]
    /\ relay = <<>>
    /\ started = {}
    /\ sent = [c \in Chans |-> <<>>]
    /\ recvd = [c \in Chans |-> NoMsg]
    /\ validated = [c \in Chans |-> NoOutcome]
    /\ yielded = <<>>
    /\ taken = 0
    /\ delivered = 0
    /\ failed = <<>>

\* The state before connect is called; no address is being converted.
Init == InitConnect /\ pa = NoPa /\ pair = NoPair

----------------------------------------------------------------------------
\* An attempt fails: its error travels down the merged stream to first_ok.
Fail(c, e) ==
    /\ errors' = PushError(errors, e)
    /\ failed' = Append(failed, <<c, e>>)

\* Mutant: the race goes on after its first item.
WinKeepsRacing(c, uid) ==
    /\ pc' = pc
    /\ handed' = Append(handed, <<c, uid>>)
    /\ oneshot' = oneshot

\* first_ok returns its first item; and_then passes it to
\* peer::from_handshaken_socket and the rest of the race is dropped.
Win(c, uid) ==
    /\ pc' = "building"
    /\ handed' = Append(handed, <<c, uid>>)
    /\ oneshot' = [oneshot EXCEPT !.rx_dropped = TRUE]

\* socket.send((0, HandshakeMessage::Connect(our_connect_request)))
SendConnect(c) == [sent EXCEPT ![c] = Append(@, ConnectMsg(OurConnectRequest))]

OutIdle == out.stage = "idle"
IdleOut == [chan |-> NoChan, stage |-> "idle"]

\* Mutant: without both infos the rendezvous stream ends at once.
ConnectP2pEndsWhenAbsent(our_conn_info, their_conn_info) ==
    IF our_conn_info /\ their_conn_info # None THEN "tosend" ELSE "done"

\* Mutant: the relay send is made whenever our own info is present.
ConnectP2pSendsWhenAbsent(our_conn_info, their_conn_info) ==
    IF our_conn_info THEN "tosend" ELSE "empty"

\* connect_p2p: with both infos the send on the relay comes first; otherwise
\* future::empty(), which never completes.
ConnectP2p(our_conn_info, their_conn_info) ==
    IF our_conn_info /\ their_conn_info # None THEN "tosend" ELSE "empty"

\* Mutant: the connections are started before the ids are compared.
ConnectStartsFirst ==
    /\ pc = "start"
    /\ direct' = [i \in 1..MaxAddrs |->
                    IF i <= naddrs THEN "pending" ELSE "idle"]
    /\ started' = 1..naddrs
    /\ IF our_id = their_id
       THEN /\ pc' = "done"
            /\ result' = Result("RequestedConnectToSelf", <<>>, NoChan, None)
            /\ oneshot' = [oneshot EXCEPT !.rx_dropped = our_p2p]
            /\ UNCHANGED p2p
       ELSE /\ pc' = "racing"
            /\ p2p' = ConnectP2p(our_p2p, their_p2p)
            /\ oneshot' = [oneshot EXCEPT
                             !.rx_dropped = our_p2p /\ their_p2p = None]
            /\ UNCHANGED result
    /\ UNCHANGED <<inputs, pa, pair, readyQ, out, peer_rx, inc, errors, handed, task,
                   relay, sent, recvd, validated, yielded, taken, delivered,
                   failed>>

\* The call of connect.
Connect ==
    /\ pc = "start"
    /\ IF our_id = their_id
       THEN /\ pc' = "done"
            /\ result' = Result("RequestedConnectToSelf", <<>>, NoChan, None)
            /\ oneshot' = [oneshot EXCEPT !.rx_dropped = our_p2p]
            /\ UNCHANGED <<direct, started, p2p>>
       ELSE /\ pc' = "racing"
            /\ direct' = [i \in 1..MaxAddrs |->
                            IF i <= naddrs THEN "pending" ELSE "idle"]
            /\ started' = 1..naddrs
            /\ p2p' = ConnectP2p(our_p2p, their_p2p)
            /\ oneshot' = [oneshot EXCEPT
                             !.rx_dropped = our_p2p /\ their_p2p = None]
            /\ UNCHANGED result
    /\ UNCHANGED <<inputs, pa, pair, readyQ, out, peer_rx, inc, errors, handed, task,
                   relay, sent, recvd, validated, yielded, taken, delivered,
                   failed>>

\* Mutant: the newest completed attempt is yielded first.
DirectCompleteLifo(i) ==
    /\ pc = "racing"
    /\ direct[i] = "pending"
    /\ direct' = [direct EXCEPT ![i] = "ready"]
    /\ readyQ' = <<i>> \o readyQ
    /\ UNCHANGED <<pc, result, inputs, pa, pair, p2p, out, peer_rx, inc, errors,
                   handed, task, oneshot, relay, started, sent, recvd,
                   validated, yielded, taken, delivered, failed>>

\* connect_directly: one TcpStream::connect future completes.
DirectComplete(i) ==
    /\ pc = "racing"
    /\ direct[i] = "pending"
    /\ direct' = [direct EXCEPT ![i] = "ready"]
    /\ readyQ' = Append(readyQ, i)
    /\ UNCHANGED <<pc, result, inputs, pa, pair, p2p, out, peer_rx, inc, errors, handed,
                   task, oneshot, relay, started, sent, recvd, validated,
                   yielded, taken, delivered, failed>>

\* The idle outgoing chain polls the direct stream: a failed attempt is an
\* Io error of the stream.
DirectError ==
    /\ pc = "racing"
    /\ OutIdle
    /\ readyQ # <<>>
    /\ remote[DirectChan(Head(readyQ))] = "unreachable"
    /\ direct' = [direct EXCEPT ![Head(readyQ)] = "yielded"]
    /\ readyQ' = Tail(readyQ)
    /\ Fail(DirectChan(Head(readyQ)), Err("Io", None, None))
    /\ UNCHANGED <<pc, result, inputs, pa, pair, p2p, out, peer_rx, inc, handed, task,
                   oneshot, relay, started, sent, recvd, validated, yielded,
                   taken, delivered>>

\* Mutant: the chain awaits the reply without having sent our request.
DirectConnectedAwaitsFirst ==
    /\ pc = "racing"
    /\ OutIdle
    /\ readyQ # <<>>
    /\ remote[DirectChan(Head(readyQ))] # "unreachable"
    /\ direct' = [direct EXCEPT ![Head(readyQ)] = "yielded"]
    /\ readyQ' = Tail(readyQ)
    /\ out' = [chan |-> DirectChan(Head(readyQ)), stage |-> "awaiting"]
    /\ UNCHANGED <<pc, result, inputs, pa, pair, p2p, peer_rx, inc, errors, handed,
                   task, oneshot, relay, started, sent, recvd, validated,
                   yielded, taken, delivered, failed>>

\* The idle outgoing chain polls the direct stream: a connected TcpStream is
\* wrapped and the send of our request starts.
DirectConnected ==
    /\ pc = "racing"
    /\ OutIdle
    /\ readyQ # <<>>
    /\ remote[DirectChan(Head(readyQ))] # "unreachable"
    /\ direct' = [direct EXCEPT ![Head(readyQ)] = "yielded"]
    /\ readyQ' = Tail(readyQ)
    /\ out' = [chan |-> DirectChan(Head(readyQ)), stage |-> "sending"]
    /\ sent' = SendConnect(DirectChan(Head(readyQ)))
    /\ UNCHANGED <<pc, result, inputs, pa, pair, p2p, peer_rx, inc, errors, handed,
                   task, oneshot, relay, started, recvd, validated, yielded,
                   taken, delivered, failed>>

\* The relay sender works as long as the rendezvous task holds the other end.
RelayOpen == task = "running"

\* Mutant: a failed relay send is ignored and the result is awaited anyway.
P2pSendIgnoresFailure ==
    /\ pc = "racing"
    /\ OutIdle
    /\ p2p = "tosend"
    /\ relay' = Append(relay, [bytes |-> their_p2p, accepted |-> RelayOpen])
    /\ p2p' = "awaiting"
    /\ UNCHANGED <<errors, failed, oneshot>>
    /\ UNCHANGED <<pc, result, inputs, pa, pair, direct, readyQ, out, peer_rx, inc,
                   handed, task, started, sent, recvd, validated, yielded,
                   taken, delivered>>

\* connect_p2p, both infos present: the send on rendezvous_channel.
P2pSend ==
    /\ pc = "racing"
    /\ OutIdle
    /\ p2p = "tosend"
    /\ relay' = Append(relay, [bytes |-> their_p2p, accepted |-> RelayOpen])
    /\ IF RelayOpen
       THEN /\ p2p' = "awaiting"
            /\ UNCHANGED <<errors, failed, oneshot>>
       ELSE /\ p2p' = "done"
            /\ Fail(P2pChan, Err("DeadChannel", None, None))
            /\ oneshot' = [oneshot EXCEPT !.rx_dropped = TRUE]
    /\ UNCHANGED <<pc, result, inputs, pa, pair, direct, readyQ, out, peer_rx, inc,
                   handed, task, started, sent, recvd, validated, yielded,
                   taken, delivered>>

\* connect_p2p: conn_rx resolves (a value, or the sender was dropped).
P2pResult ==
    /\ pc = "racing"
    /\ OutIdle
    /\ p2p = "awaiting"
    /\ oneshot.value # NoOutcome \/ task = "dead"
    /\ p2p' = "done"
    /\ oneshot' = [oneshot EXCEPT
                     !.value = NoOutcome,
                     !.received = IF oneshot.value # NoOutcome THEN @ + 1 ELSE @,
                     !.rx_dropped = TRUE]
    /\ CASE oneshot.value = Ok ->
                /\ out' = [chan |-> P2pChan, stage |-> "sending"]
                /\ sent' = SendConnect(P2pChan)
                /\ UNCHANGED <<errors, failed>>
         [] oneshot.value \notin {Ok, NoOutcome} ->
                /\ Fail(P2pChan, oneshot.value)
                /\ UNCHANGED <<out, sent>>
         [] OTHER ->
                /\ Fail(P2pChan, Err("DeadChannel", None, None))
                /\ UNCHANGED <<out, sent>>
    /\ UNCHANGED <<pc, result, inputs, pa, pair, direct, readyQ, peer_rx, inc, handed,
                   task, relay, started, recvd, validated, yielded, taken,
                   delivered>>

\* handshake_outgoing_connections: the send of our request completes and
\* the chain goes on to await one reply.
OutSendDone ==
    /\ pc = "racing"
    /\ out.stage = "sending"
    /\ out' = [out EXCEPT !.stage = "awaiting"]
    /\ UNCHANGED <<pc, result, inputs, pa, pair, direct, readyQ, p2p, peer_rx, inc,
                   errors, handed, task, oneshot, relay, started, sent, recvd,
                   validated, yielded, taken, delivered, failed>>

\* handshake_outgoing_connections: the send of our request fails.
OutSendFail ==
    /\ pc = "racing"
    /\ out.stage = "sending"
    /\ remote[out.chan] = "faulty"
    /\ out' = IdleOut
    /\ Fail(out.chan, Err("Socket", None, None))
    /\ UNCHANGED <<pc, result, inputs, pa, pair, direct, readyQ, p2p, peer_rx, inc,
                   handed, task, oneshot, relay, started, sent, recvd,
                   validated, yielded, taken, delivered>>

\* What the far end of an outgoing channel may answer.
HonestRequest == [uid |-> their_id, name_hash |-> name_hash]
Reply(ev, msg) == [ev |-> ev, msg |-> msg]
ReplySpace ==
    {Reply("closed", ClosedMsg), Reply("error", NoMsg), Reply("msg", OtherMsg)}
    \cup {Reply("msg", ConnectMsg(r)) : r \in ConnectRequests}
Replies(c) ==
    IF remote[c] = "honest"
    THEN {Reply("msg", ConnectMsg(HonestRequest))}
    ELSE {Reply("closed", ClosedMsg), Reply("error", NoMsg), Reply("msg", OtherMsg)}
         \cup {Reply("msg", ConnectMsg(r)) : r \in ConnectRequests \ {HonestRequest}}

\* handshake_outgoing_connections: socket.into_future() resolves and the
\* reply is matched.
OutRecv(r) ==
    /\ pc = "racing"
    /\ out.stage = "awaiting"
    /\ r \in Replies(out.chan)
    /\ out' = IdleOut
    /\ recvd' = [recvd EXCEPT ![out.chan] = r.msg]
    /\ CASE r.ev = "error" ->
                /\ Fail(out.chan, Err("Socket", None, None))
                /\ UNCHANGED <<pc, handed, oneshot, validated, yielded>>
         [] r.ev = "closed" ->
                /\ Fail(out.chan, Err("ConnectionDropped", None, None))
                /\ UNCHANGED <<pc, handed, oneshot, validated, yielded>>
         [] r.ev = "msg" /\ r.msg.kind = "Connect" ->
                LET v == Validate(their_id, OurConnectRequest.name_hash,
                                  r.msg.req)
                IN  /\ validated' = [validated EXCEPT ![out.chan] = v]
                    /\ IF v = Ok
                       THEN /\ yielded' = Append(yielded, out.chan)
                            /\ Win(out.chan, r.msg.req.uid)
                            /\ UNCHANGED <<errors, failed>>
                       ELSE /\ Fail(out.chan, v)
                            /\ UNCHANGED <<pc, handed, oneshot, yielded>>
         [] OTHER ->
                /\ Fail(out.chan, Err("UnexpectedMessage", None, None))
                /\ UNCHANGED <<pc, handed, oneshot, validated, yielded>>
    /\ UNCHANGED <<result, inputs, pa, pair, direct, readyQ, p2p, peer_rx, inc, task,
                   relay, started, sent, taken, delivered>>

\* The demultiplexer delivers (socket, connect_request) on peer_rx.
Deliver(req) ==
    /\ pc \in {"start", "racing"}
    /\ ~peer_rx.closed
    /\ delivered < MaxIncoming
    /\ Candidates(naddrs, our_p2p, their_p2p, remote[P2pChan], delivered)
          < MaxChannels
    /\ delivered' = delivered + 1
    /\ peer_rx' = [peer_rx EXCEPT
                     !.queue = Append(@, <<IncomingChan(delivered + 1), req>>)]
    /\ recvd' = [recvd EXCEPT ![IncomingChan(delivered + 1)] = ConnectMsg(req)]
    /\ UNCHANGED <<pc, result, inputs, pa, pair, direct, readyQ, p2p, out, inc, errors,
                   handed, task, oneshot, relay, started, sent, validated,
                   yielded, taken, failed>>

\* The demultiplexer drops its sender: peer_rx ends once it is drained.
CloseRx ==
    /\ pc \in {"start", "racing"}
    /\ ~peer_rx.closed
    /\ peer_rx' = [peer_rx EXCEPT !.closed = TRUE]
    /\ UNCHANGED <<pc, result, inputs, pa, pair, direct, readyQ, p2p, out, inc, errors,
                   handed, task, oneshot, relay, started, sent, recvd,
                   validated, yielded, taken, delivered, failed>>

\* Mutant: the reply is sent before the request is validated.
InTakeRepliesFirst ==
    /\ pc = "racing"
    /\ inc = NoChan
    /\ peer_rx.queue # <<>>
    /\ peer_rx' = [peer_rx EXCEPT !.queue = Tail(@)]
    /\ taken' = taken + 1
    /\ LET socket == Head(peer_rx.queue)[1]
           connect_request == Head(peer_rx.queue)[2]
           v == Validate(their_id, OurConnectRequest.name_hash, connect_request)
       IN  /\ validated' = [validated EXCEPT ![socket] = v]
           /\ IF v = Ok
              THEN /\ inc' = socket
                   /\ sent' = SendConnect(socket)
                   /\ UNCHANGED <<errors, failed>>
              ELSE /\ Fail(socket, v)
                   /\ sent' = SendConnect(socket)
                   /\ UNCHANGED inc
    /\ UNCHANGED <<pc, result, inputs, pa, pair, direct, readyQ, p2p, out, handed, task,
                   oneshot, relay, started, recvd, yielded, delivered>>

\* Mutant: the next item is taken while a reply send is still in flight.
InTakeOverlapping ==
    /\ pc = "racing"
    /\ peer_rx.queue # <<>>
    /\ peer_rx' = [peer_rx EXCEPT !.queue = Tail(@)]
    /\ taken' = taken + 1
    /\ LET socket == Head(peer_rx.queue)[1]
           connect_request == Head(peer_rx.queue)[2]
           v == Validate(their_id, OurConnectRequest.name_hash, connect_request)
       IN  /\ validated' = [validated EXCEPT ![socket] = v]
           /\ IF v = Ok
              THEN /\ inc' = socket
                   /\ sent' = SendConnect(socket)
                   /\ UNCHANGED <<errors, failed>>
              ELSE /\ Fail(socket, v)
                   /\ UNCHANGED <<inc, sent>>
    /\ UNCHANGED <<pc, result, inputs, pa, pair, direct, readyQ, p2p, out, handed, task,
                   oneshot, relay, started, recvd, yielded, delivered>>

\* handshake_incoming_connections: the idle chain takes the next item and
\* validates its request; a valid one starts the send of our reply.
InTake ==
    /\ pc = "racing"
    /\ inc = NoChan
    /\ peer_rx.queue # <<>>
    /\ peer_rx' = [peer_rx EXCEPT !.queue = Tail(@)]
    /\ taken' = taken + 1
    /\ LET socket == Head(peer_rx.queue)[1]
           connect_request == Head(peer_rx.queue)[2]
           v == Validate(their_id, OurConnectRequest.name_hash, connect_request)
       IN  /\ validated' = [validated EXCEPT ![socket] = v]
           /\ IF v = Ok
              THEN /\ inc' = socket
                   /\ sent' = SendConnect(socket)
                   /\ UNCHANGED <<errors, failed>>
              ELSE /\ Fail(socket, v)
                   /\ UNCHANGED <<inc, sent>>
    /\ UNCHANGED <<pc, result, inputs, pa, pair, direct, readyQ, p2p, out, handed, task,
                   oneshot, relay, started, recvd, yielded, delivered>>

\* handshake_incoming_connections: the send of our reply completes and
\* (socket, their_id) is yielded.
InSendDone ==
    /\ pc = "racing"
    /\ inc # NoChan
    /\ inc' = NoChan
    /\ yielded' = Append(yielded, inc)
    /\ Win(inc, their_id)
    /\ UNCHANGED <<result, inputs, pa, pair, direct, readyQ, p2p, out, peer_rx, errors,
                   task, relay, started, sent, recvd, validated, taken,
                   delivered, failed>>

\* Mutant: a failed reply ends the incoming stream.
InSendFailClosesStream ==
    /\ pc = "racing"
    /\ inc # NoChan
    /\ inc' = NoChan
    /\ Fail(inc, Err("Socket", None, None))
    /\ peer_rx' = [queue |-> <<>>, closed |-> TRUE]
    /\ UNCHANGED <<pc, result, inputs, pa, pair, direct, readyQ, p2p, out,
                   handed, task, oneshot, relay, started, sent, recvd,
                   validated, yielded, taken, delivered>>

\* handshake_incoming_connections: the send of our reply fails.
InSendFail ==
    /\ pc = "racing"
    /\ inc # NoChan
    /\ inc' = NoChan
    /\ Fail(inc, Err("Socket", None, None))
    /\ UNCHANGED <<pc, result, inputs, pa, pair, direct, readyQ, p2p, out, peer_rx,
                   handed, task, oneshot, relay, started, sent, recvd,
                   validated, yielded, taken, delivered>>

\* Mutant: the direct stream ends with its first error.
DirectEndedAtFirstError ==
    \E i \in 1..naddrs :
        direct[i] = "yielded" /\ remote[DirectChan(i)] = "unreachable"

\* The sources of the merged stream.
DirectEnded == \A i \in 1..naddrs : direct[i] = "yielded"
OutgoingEnded == DirectEnded /\ p2p = "done" /\ OutIdle

\* Mutant: the incoming stream counts as ended as soon as its producer has
\* closed it, whatever is still queued.
IncomingEndedWhenClosed == peer_rx.closed /\ inc = NoChan

\* conn_rx has ended (closed and drained) and no reply send is in flight.
IncomingEnded == peer_rx.closed /\ peer_rx.queue = <<>> /\ inc = NoChan

\* first_ok: the merged stream has ended without an item.
RaceEnd ==
    /\ pc = "racing"
    /\ OutgoingEnded
    /\ IncomingEnded
    /\ pc' = "done"
    /\ result' = Result("AllConnectionsFailed", errors, NoChan, None)
    /\ oneshot' = [oneshot EXCEPT !.rx_dropped = TRUE]
    /\ UNCHANGED <<inputs, pa, pair, direct, readyQ, p2p, out, peer_rx, inc, errors,
                   handed, task, relay, started, sent, recvd, validated,
                   yielded, taken, delivered, failed>>

\* Mutant: when peer construction fails the race is resumed.
BuildFallsBack(ok) ==
    /\ pc = "building"
    /\ pc' = IF ok THEN "done" ELSE "racing"
    /\ result' = IF ok
                 THEN Result("Peer", <<>>, handed[Len(handed)][1],
                             handed[Len(handed)][2])
                 ELSE result
    /\ UNCHANGED <<inputs, pa, pair, direct, readyQ, p2p, out, peer_rx, inc, errors,
                   handed, task, oneshot, relay, started, sent, recvd,
                   validated, yielded, taken, delivered, failed>>

\* peer::from_handshaken_socket resolves.
Build(ok) ==
    /\ pc = "building"
    /\ pc' = "done"
    /\ result' = IF ok
                 THEN Result("Peer", <<>>, handed[Len(handed)][1],
                             handed[Len(handed)][2])
                 ELSE Result("Io", <<>>, NoChan, None)
    /\ UNCHANGED <<inputs, pa, pair, direct, readyQ, p2p, out, peer_rx, inc, errors,
                   handed, task, oneshot, relay, started, sent, recvd,
                   validated, yielded, taken, delivered, failed>>

\* The rendezvous protocol has received their metadata from the relay.
RelayInfoArrived == \E k \in 1..Len(relay) : relay[k].accepted

\* Mutant: a publish that finds the receiver gone makes the task fail.
RendezvousFinishFailsWithoutReceiver ==
    /\ task = "running"
    /\ remote[P2pChan] # "unreachable" => RelayInfoArrived
    /\ task' = IF oneshot.rx_dropped THEN "dead" ELSE "finished"
    /\ oneshot' = [oneshot EXCEPT
                     !.sends = @ + 1,
                     !.value = IF oneshot.rx_dropped THEN @
                               ELSE IF remote[P2pChan] = "unreachable"
                                    THEN Err("RendezvousConnect", None, None)
                                    ELSE Ok]
    /\ UNCHANGED <<pc, result, inputs, pa, pair, direct, readyQ, p2p, out, peer_rx, inc,
                   errors, handed, relay, started, sent, recvd, validated,
                   yielded, taken, delivered, failed>>

\* start_rendezvous_connect: TcpStream::rendezvous_connect finishes and its
\* result is sent on conn_tx; a failed send is swallowed.
RendezvousFinish ==
    /\ task = "running"
    /\ remote[P2pChan] # "unreachable" => RelayInfoArrived
    /\ task' = "finished"
    /\ oneshot' = [oneshot EXCEPT
                     !.sends = @ + 1,
                     !.value = IF oneshot.rx_dropped THEN @
                               ELSE IF remote[P2pChan] = "unreachable"
                                    THEN Err("RendezvousConnect", None, None)
                                    ELSE Ok]
    /\ UNCHANGED <<pc, result, inputs, pa, pair, direct, readyQ, p2p, out, peer_rx, inc,
                   errors, handed, relay, started, sent, recvd, validated,
                   yielded, taken, delivered, failed>>

\* The spawned task is dropped before it finishes: conn_tx is dropped unsent.
TaskDropped ==
    /\ task = "running"
    /\ task' = "dead"
    /\ UNCHANGED <<pc, result, inputs, pa, pair, direct, readyQ, p2p, out, peer_rx, inc,
                   errors, handed, oneshot, relay, started, sent, recvd,
                   validated, yielded, taken, delivered, failed>>

Next ==
    \/ Connect
    \/ \E i \in 1..MaxAddrs : DirectComplete(i)
    \/ DirectError
    \/ DirectConnected
    \/ P2pSend
    \/ P2pResult
    \/ OutSendDone
    \/ OutSendFail
    \/ \E r \in ReplySpace : OutRecv(r)
    \/ \E req \in ConnectRequests : Deliver(req)
    \/ CloseRx
    \/ InTake
    \/ InSendDone
    \/ InSendFail
    \/ RaceEnd
    \/ \E ok \in BOOLEAN : Build(ok)
    \/ RendezvousFinish
    \/ TaskDropped

Spec == Init /\ [][Next]_vars

\* The steps the event loop and the transports take whenever they can: every
\* started connect, send, receive and rendezvous run completes or fails, and
\* every ready future is polled.  The demultiplexer's deliveries, the closing
\* of peer_rx and the dropping of the rendezvous task are not forced.
Progress ==
    \/ Connect
    \/ \E i \in 1..MaxAddrs : DirectComplete(i)
    \/ DirectError
    \/ DirectConnected
    \/ P2pSend
    \/ P2pResult
    \/ OutSendDone
    \/ OutSendFail
    \/ \E r \in ReplySpace : OutRecv(r)
    \/ InTake
    \/ InSendDone
    \/ InSendFail
    \/ RaceEnd
    \/ \E ok \in BOOLEAN : Build(ok)
    \/ RendezvousFinish

FairSpec == Init /\ [][Next]_vars /\ WF_vars(Progress)

\* As Progress, but a far end that is not honest may stay silent for ever:
\* the code sets no timeout on the wait for a reply (TIMEOUT_SEC is unused).
PatientProgress ==
    \/ Connect
    \/ \E i \in 1..MaxAddrs : DirectComplete(i)
    \/ DirectError
    \/ DirectConnected
    \/ P2pSend
    \/ P2pResult
    \/ OutSendDone
    \/ OutSendFail
    \/ \E r \in ReplySpace :
          out.stage = "awaiting" /\ remote[out.chan] = "honest" /\ OutRecv(r)
    \/ InTake
    \/ InSendDone
    \/ InSendFail
    \/ RaceEnd
    \/ \E ok \in BOOLEAN : Build(ok)
    \/ RendezvousFinish

SilentSpec == Init /\ [][Next]_vars /\ WF_vars(PatientProgress)

----------------------------------------------------------------------------
\* Formatting and parsing of a PaAddr, applied to the chosen input.

\* An address value, or a text, is chosen; connect is not running.
AddrInit ==
    /\ InitConnect
    /\ their_id = "u2" /\ naddrs = 0 /\ ~our_p2p /\ their_p2p = None
    /\ pa \in {[NoPa EXCEPT !.input = "addr", !.addr = a] : a \in PaAddrs}
              \cup {[NoPa EXCEPT !.input = "text", !.text = t] : t \in Texts}
    /\ pair = NoPair

\* The chosen address is formatted and the text is parsed back.
FormatAndParse ==
    /\ pa.input = "addr" /\ pa.step = 0
    /\ pa' = [pa EXCEPT !.text = Fmt(pa.addr),
                        !.parsed = FromStr(Fmt(pa.addr)),
                        !.step = 1]
    /\ UNCHANGED <<connVars, pair>>

\* PaAddr::from_str of the chosen text.
ParseText ==
    /\ pa.input = "text" /\ pa.step = 0
    /\ pa' = [pa EXCEPT !.parsed = FromStr(pa.text), !.step = 1]
    /\ UNCHANGED <<connVars, pair>>

\* format!("{}", addr) of the address just parsed.
FormatParsed ==
    /\ pa.input = "text" /\ pa.step = 1 /\ pa.parsed.ok
    /\ pa' = [pa EXCEPT !.out = Fmt(pa.parsed.addr), !.step = 2]
    /\ UNCHANGED <<connVars, pair>>

AddrNext == FormatAndParse \/ ParseText \/ FormatParsed

AddrSpec == AddrInit /\ [][AddrNext]_vars

----------------------------------------------------------------------------
\* Two simultaneous connect calls, A toward B and B toward A, each with the
\* other's id as their_info.id and its own name hash, no rendezvous info,
\* and a demultiplexer that stays alive (peer_rx does not end).

PairInit ==
    /\ InitConnect
    /\ their_id = "u2" /\ naddrs = 0 /\ ~our_p2p /\ their_p2p = None
    /\ pa = NoPa
    /\ pair \in {PairState("racing", d, nh) :
                    d \in [Sides -> {"reachable", "unreachable"}],
                    nh \in [Sides -> NameHashes]}

\* ConnectRequest { uid: our_info.id, name_hash } of side s.
PairRequest(s) == [uid |-> s, name_hash |-> pair.nh[s]]

PairRacing(s) == pair.pc[s] = "racing"
PairDropped(s) == pair.pc[s] = "done"

\* first_ok of side s returns (channel c, uid): the pair is handed to peer
\* construction, which succeeds, and the rest of the race is dropped.
PairWin(s, c) ==
    [pair EXCEPT !.pc[s] = "done", !.accepted[s] = c]

\* connect_directly of side s: its TcpStream::connect completes.
PairDialed(s) ==
    /\ PairRacing(s)
    /\ pair.out[s] = "connecting"
    /\ pair' = IF pair.dial[s] = "reachable"
               THEN [pair EXCEPT !.out[s] = "ready"]
               ELSE [pair EXCEPT !.out[s] = "failed",
                                 !.errs[s] = PushError(@, Err("Io", None, None))]
    /\ UNCHANGED <<connVars, pa>>

\* handshake_outgoing_connections of side s: the connection is wrapped and
\* our request is sent on it.
PairSendRequest(s) ==
    /\ PairRacing(s)
    /\ pair.out[s] = "ready"
    /\ pair' = [pair EXCEPT !.out[s] = "awaiting", !.req[s] = "sent"]
    /\ UNCHANGED <<connVars, pa>>

\* The demultiplexer of side s has read the request on the connection the
\* other side dialled and passes (socket, connect_request) to peer_rx.
PairDemux(s) ==
    /\ PairRacing(s)
    /\ pair.req[Other(s)] = "sent"
    /\ pair' = [pair EXCEPT
                  !.req[Other(s)] = "delivered",
                  !.rx[s] = Append(@, <<Other(s), PairRequest(Other(s))>>)]
    /\ UNCHANGED <<connVars, pa>>

\* handshake_incoming_connections of side s: the next item is validated and
\* the send of the reply starts.
PairTakeIncoming(s) ==
    /\ PairRacing(s)
    /\ pair.inc[s] = "none"
    /\ pair.rx[s] # <<>>
    /\ LET v == Validate(Other(s), PairRequest(s).name_hash, Head(pair.rx[s])[2])
       IN  pair' = IF v = Ok
                   THEN [pair EXCEPT !.rx[s] = Tail(@), !.inc[s] = "sending"]
                   ELSE [pair EXCEPT !.rx[s] = Tail(@),
                                     !.errs[s] = PushError(@, v)]
    /\ UNCHANGED <<connVars, pa>>

\* handshake_incoming_connections of side s: the reply is sent and
\* (socket, their_id) is yielded, which first_ok returns.
PairReplySent(s) ==
    /\ PairRacing(s)
    /\ pair.inc[s] = "sending"
    /\ pair' = [PairWin(s, Other(s)) EXCEPT
                  !.inc[s] = "yielded", !.rep[Other(s)] = "sent"]
    /\ UNCHANGED <<connVars, pa>>

\* handshake_incoming_connections of side s: the send of the reply fails,
\* the other side having dropped the connection.
PairReplyFailed(s) ==
    /\ PairRacing(s)
    /\ pair.inc[s] = "sending"
    /\ PairDropped(Other(s))
    /\ pair.accepted[Other(s)] # Other(s)
    /\ pair' = [pair EXCEPT
                  !.inc[s] = "none",
                  !.errs[s] = PushError(@, Err("Socket", None, None))]
    /\ UNCHANGED <<connVars, pa>>

\* handshake_outgoing_connections of side s: the reply arrives, is validated
\* and (socket, connect_request.uid) is yielded, which first_ok returns.
PairRecvReply(s) ==
    /\ PairRacing(s)
    /\ pair.out[s] = "awaiting"
    /\ pair.rep[s] = "sent"
    /\ LET v == Validate(Other(s), PairRequest(s).name_hash,
                         PairRequest(Other(s)))
       IN  pair' = IF v = Ok
                   THEN [PairWin(s, s) EXCEPT
                           !.out[s] = "yielded", !.rep[s] = "consumed"]
                   ELSE [pair EXCEPT !.out[s] = "failed",
                                     !.rep[s] = "consumed",
                                     !.errs[s] = PushError(@, v)]
    /\ UNCHANGED <<connVars, pa>>

PairNext ==
    \E s \in Sides :
        \/ PairDialed(s)
        \/ PairSendRequest(s)
        \/ PairDemux(s)
        \/ PairTakeIncoming(s)
        \/ PairReplySent(s)
        \/ PairReplyFailed(s)
        \/ PairRecvReply(s)

PairSpec == PairInit /\ [][PairNext]_vars

----------------------------------------------------------------------------
\* The request a peer with the expected id on our network sends.
ExpectedRequest == [uid |-> their_id, name_hash |-> name_hash]

\* C1: every (channel, peer id) pair handed to peer construction, and every
\* Peer returned, carries the expected remote id, and a connect request with
\* exactly that id and exactly the local network id was received on that
\* channel, on the outgoing and on the incoming path.
C1_AcceptedOnlyIfValidated ==
    /\ \A k \in 1..Len(handed) :
          /\ handed[k][2] = their_id
          /\ recvd[handed[k][1]] = ConnectMsg(ExpectedRequest)
    /\ result.kind = "Peer" =>
          /\ result.uid = their_id
          /\ recvd[result.chan] = ConnectMsg(ExpectedRequest)
    /\ \A c \in Chans :
          (recvd[c].kind = "Connect" /\ recvd[c].req # ExpectedRequest) =>
              /\ result.chan # c
              /\ \A k \in 1..Len(handed) : handed[k][1] # c

C1_Witness ==
    /\ result.kind = "Peer"
    /\ result.chan \in IncomingChans
    /\ \E c \in OutgoingChans :
          recvd[c].kind = "Connect" /\ recvd[c].req.name_hash # name_hash

\* C2: when our_info.id = their_info.id, connect returns
\* RequestedConnectToSelf and has performed no I/O: no direct connection was
\* started, nothing was sent on the relay channel, no item was taken from the
\* incoming stream and no handshake message was sent, whatever the addresses,
\* the rendezvous info and the contents of the incoming stream.
C2_SelfConnectNoIo ==
    (our_id = their_id /\ pc # "start") =>
        /\ pc = "done"
        /\ result.kind = "RequestedConnectToSelf"
        /\ started = {}
        /\ relay = <<>>
        /\ taken = 0
        /\ \A c \in Chans : sent[c] = <<>>
        /\ handed = <<>>

C2_Witness ==
    /\ our_id = their_id
    /\ result.kind = "RequestedConnectToSelf"
    /\ naddrs > 0
    /\ our_p2p /\ their_p2p # None
    /\ peer_rx.queue # <<>>

\* C3: validate_connect_request returns Ok exactly when the request's uid is
\* the expected id and its name hash is ours, InvalidUid with the received
\* and the expected id when the uids differ, and InvalidNameHash with the
\* received name hash when the uids agree and the name hashes differ; this
\* holds of every validation a handshaker has made and of every input.
ValidateMeets(e, n, r, v) ==
    /\ (v = Ok) <=> (r.uid = e /\ r.name_hash = n)
    /\ r.uid # e => v = Err("InvalidUid", Format(r.uid), Format(e))
    /\ (r.uid = e /\ r.name_hash # n) =>
          v = Err("InvalidNameHash", r.name_hash, None)

C3_ValidateOutcome ==
    /\ \A c \in Chans : validated[c] # NoOutcome =>
          ValidateMeets(their_id, name_hash, recvd[c].req, validated[c])
    /\ \A e \in Uids, n \in NameHashes, r \in ConnectRequests :
          ValidateMeets(e, n, r, Validate(e, n, r))

C3_Witness ==
    \E c \in OutgoingChans, d \in IncomingChans :
        /\ validated[c].kind = "InvalidUid"
        /\ recvd[c].req.name_hash # name_hash
        /\ validated[d].kind = "InvalidNameHash"

\* C4: in one connect call peer construction is invoked at most once, with
\* the first candidate that completed a validated handshake; no candidate
\* is yielded as validated after it.
C4_AtMostOneAccepted ==
    /\ Len(handed) <= 1
    /\ Len(yielded) <= 1
    /\ yielded # <<>> => (Len(handed) = 1 /\ handed[1][1] = yielded[1])
    /\ handed # <<>> => (yielded # <<>> /\ validated[handed[1][1]] = Ok)

C4_Witness ==
    /\ Len(handed) = 1
    /\ handed[1][1] \in IncomingChans
    /\ out.stage = "awaiting"
    /\ remote[out.chan] = "honest"

\* The scenarios of the liveness claims.
DirectAddrs == 1..naddrs
NoRendezvous == ~our_p2p \/ their_p2p = None
OneReachable ==
    /\ our_id # their_id
    /\ \E i \in DirectAddrs :
          /\ remote[DirectChan(i)] = "honest"
          /\ \A j \in DirectAddrs \ {i} : remote[DirectChan(j)] # "honest"
AllUnreachable ==
    /\ our_id # their_id
    /\ \A i \in DirectAddrs : remote[DirectChan(i)] = "unreachable"

C6_EventuallyAllFailed ==
    (AllUnreachable /\ NoRendezvous /\ [](delivered = 0)) =>
        <>(result.kind = "AllConnectionsFailed" /\ Len(result.v) = naddrs)

\* C6 as amended: without rendezvous metadata connect never returns
\* AllConnectionsFailed; with every direct attempt failing and no incoming
\* handshake ever arriving it collects one Io error per attempted address
\* and then stays pending for ever.
C6_PendingWithoutRendezvous ==
    /\ []((NoRendezvous /\ our_id # their_id) =>
            result.kind # "AllConnectionsFailed")
    /\ (AllUnreachable /\ NoRendezvous /\ [](delivered = 0)) =>
          <>[](/\ pc = "racing"
               /\ Len(errors) = naddrs
               /\ \A k \in 1..Len(errors) : errors[k].kind = "Io")

C6_Witness ==
    /\ AllUnreachable
    /\ NoRendezvous
    /\ naddrs >= 2
    /\ delivered = 0
    /\ peer_rx.closed
    /\ pc = "racing"
    /\ Len(errors) = naddrs

\* C7: a handshake that fails with InvalidUid or InvalidNameHash fails that
\* attempt alone: the step records the error once, for that attempt, leaves
\* connect unresolved and every other attempt as it was, and frees the chain
\* that held the attempt, so that the others can still be handshaken.
InvalidKinds == {"InvalidUid", "InvalidNameHash"}
InvalidStep ==
    /\ Len(failed') = Len(failed) + 1
    /\ failed'[Len(failed')][2].kind \in InvalidKinds
C7_InvalidRequestFailsOnlyThatAttempt ==
    [][InvalidStep =>
        LET c == failed'[Len(failed')][1]
            e == failed'[Len(failed')][2]
        IN  /\ pc' = pc /\ pc = "racing"
            /\ result' = result
            /\ handed' = handed
            /\ errors' = Append(errors, e)
            /\ validated'[c] = e
            /\ recvd'[c].kind = "Connect" /\ recvd'[c].req # ExpectedRequest
            /\ \A d \in Chans \ {c} :
                  /\ sent'[d] = sent[d]
                  /\ validated'[d] = validated[d]
                  /\ recvd'[d] = recvd[d]
            /\ direct' = direct /\ readyQ' = readyQ /\ p2p' = p2p
            /\ IF c \in IncomingChans
               THEN /\ inc' = NoChan /\ out' = out
                    /\ peer_rx'.queue = Tail(peer_rx.queue)
               ELSE /\ out' = IdleOut /\ inc' = inc
                    /\ peer_rx' = peer_rx
      ]_vars

C7_Witness ==
    /\ result.kind = "Peer"
    /\ result.chan \in OutgoingChans
    /\ \E k \in 1..Len(failed) :
          /\ failed[k][2].kind \in InvalidKinds
          /\ failed[k][1] \in IncomingChans

\* C8: connect returns AllConnectionsFailed only when the merged stream has
\* ended without a success, and the list it carries holds the error of every
\* failed attempt, once each, in the order in which the attempts failed.
C8_AllFailedCarriesEveryError ==
    result.kind = "AllConnectionsFailed" =>
        /\ OutgoingEnded /\ IncomingEnded
        /\ handed = <<>> /\ yielded = <<>>
        /\ Len(result.v) = Len(failed)
        /\ \A k \in 1..Len(failed) : result.v[k] = failed[k][2]
        /\ \A j, k \in 1..Len(failed) : j # k => failed[j][1] # failed[k][1]
        /\ \A i \in DirectAddrs : \E k \in 1..Len(failed) :
              failed[k][1] = DirectChan(i)
        /\ \A k \in 1..delivered : \E j \in 1..Len(failed) :
              failed[j][1] = IncomingChan(k)

C8_Witness ==
    /\ result.kind = "AllConnectionsFailed"
    /\ Len(result.v) = 3
    /\ failed[1][1] = DirectChan(2)
    /\ failed[2][1] = P2pChan
    /\ failed[3][1] = DirectChan(1)
    /\ result.v[1].kind # result.v[3].kind

\* C9: once a winner has been selected no handshake message is sent on any
\* channel, nothing is sent on the relay, no connection is started and no
\* item is taken from the incoming stream.
C9_NothingSentAfterWin ==
    [][handed # <<>> =>
        /\ sent' = sent
        /\ taken' = taken
        /\ relay' = relay
        /\ started' = started
      ]_vars

C9_Witness ==
    /\ result.kind = "Peer"
    /\ \/ readyQ # <<>> /\ remote[DirectChan(Head(readyQ))] = "honest"
       \/ peer_rx.queue # <<>> /\ Head(peer_rx.queue)[2] = ExpectedRequest

\* C10: on every channel delivered on the incoming stream, a request that
\* validates is answered with exactly one message, the connect message with
\* the local id and network id, and the channel is yielded only once that
\* send has completed; a request that fails validation is answered with no
\* message and its channel is never yielded.
C10_IncomingReply ==
    \A c \in IncomingChans :
        /\ validated[c] = NoOutcome => sent[c] = <<>>
        /\ validated[c] = Ok =>
              sent[c] = <<ConnectMsg([uid |-> our_id, name_hash |-> name_hash])>>
        /\ validated[c] \notin {NoOutcome, Ok} =>
              /\ sent[c] = <<>>
              /\ inc # c
              /\ \A k \in 1..Len(yielded) : yielded[k] # c
        /\ (\E k \in 1..Len(yielded) : yielded[k] = c) =>
              /\ validated[c] = Ok
              /\ inc # c
              /\ \A k \in 1..Len(failed) : failed[k][1] # c

C10_Witness ==
    /\ yielded = <<IncomingChan(2)>>
    /\ validated[IncomingChan(1)].kind \in InvalidKinds
    /\ sent[IncomingChan(1)] = <<>>
    /\ Len(sent[IncomingChan(2)]) = 1


\* C11: on every raw connection this side opened, the only message it sends
\* during the handshake is its own connect request, sent before the reply is
\* awaited; then one reply is consumed: a closed connection gives
\* ConnectionDropped, a connect message gives the validator's result (the
\* channel is yielded with the validated id when it is Ok), any other message
\* gives UnexpectedMessage.
ReplyConsumed == out.stage = "awaiting" /\ out' # out
C11_OutgoingHandshakeOrder ==
    /\ [](\A c \in OutgoingChans :
            /\ sent[c] \in {<<>>, <<ConnectMsg(OurConnectRequest)>>}
            /\ (out.chan = c /\ out.stage = "awaiting") => sent[c] # <<>>
            /\ (recvd[c] # NoMsg \/ validated[c] # NoOutcome) => sent[c] # <<>>)
    /\ [][ReplyConsumed =>
            LET c == out.chan
                m == recvd'[c]
                v == Validate(their_id, name_hash, m.req)
            IN  /\ recvd[c] = NoMsg
                /\ sent' = sent
                /\ out' = IdleOut
                /\ m.kind = "Closed" =>
                      /\ failed' = Append(failed,
                                     <<c, Err("ConnectionDropped", None, None)>>)
                      /\ yielded' = yielded
                /\ (m.kind = "Connect" /\ v = Ok) =>
                      /\ yielded' = Append(yielded, c)
                      /\ handed' = Append(handed, <<c, their_id>>)
                      /\ failed' = failed
                /\ (m.kind = "Connect" /\ v # Ok) =>
                      /\ failed' = Append(failed, <<c, v>>)
                      /\ yielded' = yielded
                /\ m.kind = "Other" =>
                      /\ failed' = Append(failed,
                                     <<c, Err("UnexpectedMessage", None, None)>>)
                      /\ yielded' = yielded
          ]_vars

C11_Witness ==
    /\ \E k \in 1..Len(failed) :
          /\ failed[k][1] \in DirectChans
          /\ failed[k][2].kind = "ConnectionDropped"
    /\ \E k \in 1..Len(failed) :
          /\ failed[k][1] \in DirectChans
          /\ failed[k][2].kind = "UnexpectedMessage"
    /\ \A c \in DirectChans : Len(sent[c]) = 1


\* C12: when peer construction from the winning pair fails, connect returns
\* ConnectError::Io and does nothing else: the result is never
\* AllConnectionsFailed, and from the moment the pair is handed on no other
\* attempt is polled, handshaken or accepted, even one that would validate.
RaceState == <<direct, readyQ, p2p, out, peer_rx, inc, errors, handed, relay,
               started, sent, recvd, validated, yielded, taken, failed>>
C12_BuildFailureIsFinal ==
    /\ [](result.kind = "Io" => (pc = "done" /\ Len(handed) = 1))
    /\ [][pc = "building" =>
            /\ \/ pc' = "building" /\ result' = result
               \/ pc' = "done" /\ result'.kind \in {"Peer", "Io"}
            /\ RaceState' = RaceState]_vars
    /\ [][result.kind = "Io" =>
            pc' = pc /\ result' = result /\ RaceState' = RaceState]_vars

C12_Witness ==
    /\ result.kind = "Io"
    /\ \/ readyQ # <<>> /\ remote[DirectChan(Head(readyQ))] = "honest"
       \/ peer_rx.queue # <<>> /\ Head(peer_rx.queue)[2] = ExpectedRequest
       \/ out.stage = "awaiting" /\ remote[out.chan] = "honest"


\* C13: when our rendezvous endpoints or their rendezvous metadata are
\* absent, the rendezvous connector never completes: it yields no connection
\* and no error, sends nothing on the relay, adds nothing to the error list,
\* and connect never fails with AllConnectionsFailed.
C13_AbsentRendezvousNeverCompletes ==
    NoRendezvous =>
        /\ p2p \in {"unused", "empty"}
        /\ relay = <<>>
        /\ oneshot.received = 0
        /\ sent[P2pChan] = <<>>
        /\ recvd[P2pChan] = NoMsg
        /\ \A k \in 1..Len(failed) : failed[k][1] # P2pChan
        /\ \A k \in 1..Len(errors) :
              errors[k].kind \notin {"DeadChannel", "RendezvousConnect"}
        /\ \A k \in 1..Len(yielded) : yielded[k] # P2pChan
        /\ pc = "racing" => ~OutgoingEnded
        /\ result.kind # "AllConnectionsFailed"

C13_Witness ==
    /\ our_p2p /\ their_p2p = None
    /\ pc = "racing"
    /\ naddrs >= 1
    /\ DirectEnded /\ OutIdle
    /\ IncomingEnded
    /\ task = "finished"


\* C14: with both rendezvous inputs present the connector first sends their
\* metadata bytes unchanged on the relay and only then awaits the result
\* receiver, and it produces exactly one outcome: DeadChannel when the send
\* fails, DeadChannel when the receiver resolves without a value, the
\* received error unchanged, or one raw connection.
BothRendezvous == our_p2p /\ their_p2p # None /\ our_id # their_id
P2pErrors ==
    {k \in 1..Len(failed) :
        /\ failed[k][1] = P2pChan
        /\ failed[k][2].kind \in {"DeadChannel", "RendezvousConnect"}}
P2pOutcomes ==
    Cardinality(P2pErrors) + (IF sent[P2pChan] # <<>> THEN 1 ELSE 0)
C14_RendezvousConnectorOutcome ==
    /\ [](BothRendezvous =>
            /\ Len(relay) <= 1
            /\ \A k \in 1..Len(relay) : relay[k].bytes = their_p2p
            /\ p2p \in {"unused", "tosend"} =>
                  (relay = <<>> /\ oneshot.received = 0 /\ P2pOutcomes = 0)
            /\ p2p = "awaiting" =>
                  /\ relay = <<[bytes |-> their_p2p, accepted |-> TRUE]>>
                  /\ oneshot.received = 0
                  /\ P2pOutcomes = 0
            /\ p2p = "done" => (Len(relay) = 1 /\ P2pOutcomes = 1)
            /\ (relay # <<>> /\ ~relay[1].accepted) =>
                  /\ p2p = "done"
                  /\ oneshot.received = 0
                  /\ \E k \in P2pErrors : failed[k][2].kind = "DeadChannel")
    /\ [][(p2p = "awaiting" /\ p2p' = "done") =>
            /\ oneshot.value = Ok =>
                  /\ out' = [chan |-> P2pChan, stage |-> "sending"]
                  /\ failed' = failed
            /\ oneshot.value \notin {Ok, NoOutcome} =>
                  /\ failed' = Append(failed, <<P2pChan, oneshot.value>>)
                  /\ out' = out
            /\ oneshot.value = NoOutcome =>
                  /\ failed' = Append(failed,
                                 <<P2pChan, Err("DeadChannel", None, None)>>)
                  /\ out' = out
          ]_vars

C14_Witness ==
    /\ BothRendezvous
    /\ p2p = "done"
    /\ relay = <<[bytes |-> their_p2p, accepted |-> TRUE]>>
    /\ \E k \in P2pErrors : failed[k][2].kind = "RendezvousConnect"


\* C15: the rendezvous task publishes the outcome of the rendezvous protocol
\* on its one-shot channel exactly once, when the protocol has finished, a
\* failure wrapped as RendezvousConnect; when the receiver is already gone
\* the publish is swallowed and the task still finishes; the receiver
\* observes at most one value.
C15_RendezvousTaskPublishesOnce ==
    /\ [](/\ oneshot.sends <= 1
          /\ oneshot.received <= oneshot.sends
          /\ (oneshot.sends = 1) <=> (task = "finished")
          /\ task # "finished" =>
                (oneshot.value = NoOutcome /\ oneshot.received = 0)
          /\ oneshot.value \in {NoOutcome, Ok,
                                Err("RendezvousConnect", None, None)}
          /\ oneshot.value = Ok => RelayInfoArrived)
    /\ [][oneshot.sends' # oneshot.sends =>
            /\ task = "running" /\ task' = "finished"
            /\ oneshot.sends' = oneshot.sends + 1
            /\ oneshot.received' = oneshot.received
            /\ oneshot.rx_dropped => oneshot.value' = NoOutcome
            /\ ~oneshot.rx_dropped =>
                  oneshot.value' = IF remote[P2pChan] = "unreachable"
                                   THEN Err("RendezvousConnect", None, None)
                                   ELSE Ok
          ]_vars

C15_Witness ==
    /\ task = "finished"
    /\ oneshot.sends = 1
    /\ oneshot.rx_dropped
    /\ oneshot.received = 0
    /\ oneshot.value = NoOutcome
    /\ result.kind = "Peer"
    /\ p2p = "awaiting"


\* C16 as claimed: formatting and parsing are exact inverses: parsing the
\* text of any Tcp or Utp address gives back that address, and formatting
\* the address parsed from a valid text gives back that text.
C16_FormatParseInverse ==
    /\ (pa.input = "addr" /\ pa.step = 1) => pa.parsed = ParseOk(pa.addr)
    /\ (pa.input = "text" /\ pa.step = 2) => pa.out = pa.text


\* C17 as claimed: outgoing handshakes are independent: an honest raw
\* connection that is ready for its handshake has its request sent (unless
\* connect resolves first), whatever happens to the handshake of another
\* connection, also one that has sent its request and waits for a reply.
C17_OutgoingHandshakesIndependent ==
    \A i \in 1..MaxAddrs :
        (pc = "racing" /\ direct[i] = "ready"
           /\ remote[DirectChan(i)] = "honest")
        ~> (sent[DirectChan(i)] # <<>> \/ pc # "racing")


\* C18: the direct connector starts exactly one attempt per address and
\* yields exactly one result per address, a raw connection or an Io error,
\* in the order the attempts complete; its stream has ended once every
\* address has its result, and at once, with no result, for no address.
DirectIoErrors(i) ==
    {k \in 1..Len(failed) :
        failed[k] = <<DirectChan(i), Err("Io", None, None)>>}
DirectResults(i) ==
    Cardinality(DirectIoErrors(i))
    + (IF sent[DirectChan(i)] # <<>> THEN 1 ELSE 0)
C18_DirectConnector ==
    /\ [](pc = "start" => started = {})
    /\ []((pc # "start" /\ our_id # their_id) =>
            /\ started = 1..naddrs
            /\ \A i \in 1..MaxAddrs :
                  /\ direct[i] = "idle" <=> i > naddrs
                  /\ DirectResults(i) = IF direct[i] = "yielded" THEN 1 ELSE 0
                  /\ Cardinality({k \in 1..Len(readyQ) : readyQ[k] = i})
                        = IF direct[i] = "ready" THEN 1 ELSE 0
            /\ DirectEnded <=> \A i \in 1..naddrs : DirectResults(i) = 1
            /\ naddrs = 0 =>
                  /\ DirectEnded
                  /\ \A k \in 1..Len(failed) : failed[k][1] \notin DirectChans)
    /\ [][\A i \in 1..MaxAddrs :
            /\ (direct[i] = "pending" /\ direct'[i] # "pending") =>
                  (direct'[i] = "ready" /\ readyQ' = Append(readyQ, i))
            /\ (direct[i] # "yielded" /\ direct'[i] = "yielded") =>
                  /\ direct[i] = "ready"
                  /\ i = Head(readyQ)
                  /\ readyQ' = Tail(readyQ)
                  /\ DirectResults(i)' = 1
          ]_vars

C18_Witness ==
    /\ naddrs = 2
    /\ DirectEnded
    /\ failed # <<>>
    /\ failed[1] = <<DirectChan(2), Err("Io", None, None)>>
    /\ sent[DirectChan(1)] # <<>>
    /\ pc = "racing"


\* C19: when an incoming handshake validates and the send of the reply
\* fails, that attempt fails with a Socket error and its channel is not
\* yielded; nothing else changes, and the incoming handshakes delivered
\* afterwards are still taken, validated and replied to.
ReplyFailed == inc # NoChan /\ inc' = NoChan /\ yielded' = yielded
C19_ReplyFailureIsConfined ==
    /\ [](\A c \in IncomingChans :
            (\E k \in 1..Len(failed) :
                failed[k] = <<c, Err("Socket", None, None)>>) =>
                /\ validated[c] = Ok
                /\ Len(sent[c]) = 1
                /\ inc # c
                /\ \A k \in 1..Len(yielded) : yielded[k] # c
                /\ \A k \in 1..Len(handed) : handed[k][1] # c)
    /\ []((pc = "racing" /\ inc = NoChan /\ peer_rx.queue # <<>>) =>
            ENABLED InTake)
    /\ [][ReplyFailed =>
            /\ failed' = Append(failed, <<inc, Err("Socket", None, None)>>)
            /\ errors' = Append(errors, Err("Socket", None, None))
            /\ pc' = pc /\ pc = "racing"
            /\ UNCHANGED <<result, handed, peer_rx, taken, delivered, out,
                           direct, readyQ, p2p, sent, recvd, validated>>
          ]_vars

C19_Witness ==
    /\ \E k \in 1..Len(failed) :
          failed[k] = <<IncomingChan(1), Err("Socket", None, None)>>
    /\ yielded = <<IncomingChan(2)>>
    /\ Len(sent[IncomingChan(2)]) = 1
    /\ result.kind = "Peer"


\* C20 as claimed: when both calls return a Peer, both accepted the same
\* connection.
C20_BothAcceptSameConnection ==
    (\A s \in Sides : pair.accepted[s] # None) =>
        pair.accepted["A"] = pair.accepted["B"]

----------------------------------------------------------------------------
\* The error kinds connect has produced so far, wherever they are kept.
ProducedKinds ==
    {result.kind}
      \cup {errors[k].kind : k \in 1..Len(errors)}
      \cup {failed[k][2].kind : k \in 1..Len(failed)}
      \cup {validated[c].kind : c \in Chans}
      \cup (IF result.kind = "AllConnectionsFailed"
            THEN {result.v[k].kind : k \in 1..Len(result.v)}
            ELSE {})

\* Every source of the merged stream has ended: each direct attempt has
\* produced its result, the rendezvous attempt has completed, the incoming
\* stream is closed and each delivered item has been processed.
AllSourcesEnded ==
    /\ \A i \in 1..naddrs :
          /\ direct[i] = "yielded"
          /\ \/ \E k \in 1..Len(failed) : failed[k][1] = DirectChan(i)
             \/ DirectChan(i) \in {handed[k][1] : k \in 1..Len(handed)}
    /\ our_p2p /\ their_p2p # None /\ p2p = "done"
    /\ out = IdleOut
    /\ peer_rx.closed /\ peer_rx.queue = <<>>
    /\ taken = delivered /\ inc = NoChan

\* C21: connect returns AllConnectionsFailed only in a state where all three
\* sources have ended; while one of them is still open and no handshake has
\* succeeded, a connect that was called with distinct ids is pending; and
\* no TimedOut error is ever produced.
C21_AllFailedOnlyWhenAllEnded ==
    /\ result.kind = "AllConnectionsFailed" => AllSourcesEnded
    /\ (pc # "start" /\ our_id # their_id /\ handed = <<>> /\ ~AllSourcesEnded)
          => (pc = "racing" /\ result = NoResult)
    /\ "TimedOut" \notin ProducedKinds

C21_Witness ==
    /\ result.kind = "AllConnectionsFailed"
    /\ naddrs >= 1
    /\ delivered >= 1
    /\ \E k \in 1..Len(failed) : failed[k][1] = P2pChan
    /\ \E k \in 1..Len(failed) : failed[k][1] \in IncomingChans

----------------------------------------------------------------------------
\* The incoming item k is finished: its request was rejected, or its reply
\* send has completed, or its reply send has failed.
IncomingFinished(k) ==
    \/ validated[IncomingChan(k)] \notin {Ok, NoOutcome}
    \/ \E j \in 1..Len(yielded) : yielded[j] = IncomingChan(k)
    \/ \E j \in 1..Len(failed) :
          failed[j] = <<IncomingChan(k), Err("Socket", None, None)>>

\* The incoming reply sends that are in flight.
RepliesInFlight ==
    {k \in 1..MaxIncoming :
        sent[IncomingChan(k)] # <<>> /\ ~IncomingFinished(k)}

\* C22: incoming handshakes are processed one at a time in delivery order:
\* the items validated so far are exactly the first ones delivered, an item
\* is validated only when every earlier one is finished, and at no time are
\* two incoming reply sends in flight.
C22_IncomingOneAtATime ==
    /\ [](/\ taken <= delivered
          /\ \A k \in 1..MaxIncoming :
                validated[IncomingChan(k)] # NoOutcome <=> k <= taken
          /\ Cardinality(RepliesInFlight) <= 1
          /\ \A k \in RepliesInFlight : inc = IncomingChan(k) /\ k = taken)
    /\ [][\A k \in 1..MaxIncoming :
            (validated[IncomingChan(k)] = NoOutcome
               /\ validated'[IncomingChan(k)] # NoOutcome)
            => /\ k = taken + 1 /\ taken' = k
               /\ RepliesInFlight = {}
               /\ \A j \in 1..(k - 1) : IncomingFinished(j)
               /\ sent'[IncomingChan(k)] # <<>>
                     <=> validated'[IncomingChan(k)] = Ok]_vars

C22_Witness ==
    /\ taken = 2
    /\ \E j \in 1..Len(failed) :
          failed[j] = <<IncomingChan(1), Err("Socket", None, None)>>
    /\ RepliesInFlight = {2}

----------------------------------------------------------------------------
\* The request has neither the expected peer id nor our network id.
BothWrong(e, n, r) == r.uid # e /\ r.name_hash # n

\* C23: the validator checks the peer id before the network id: a request
\* whose peer id and network id are both wrong is rejected with InvalidUid,
\* and InvalidNameHash is produced only for a request whose peer id is the
\* expected one; this holds of every validation a handshaker has made and
\* of every input of the validator.
C23_UidCheckedBeforeNameHash ==
    /\ \A c \in Chans : validated[c] # NoOutcome =>
          /\ BothWrong(their_id, name_hash, recvd[c].req) =>
                validated[c].kind = "InvalidUid"
          /\ validated[c].kind = "InvalidNameHash" =>
                recvd[c].req.uid = their_id
    /\ \A e \in Uids, n \in NameHashes, r \in ConnectRequests :
          /\ BothWrong(e, n, r) => Validate(e, n, r).kind = "InvalidUid"
          /\ Validate(e, n, r).kind = "InvalidNameHash" => r.uid = e

C23_Witness ==
    \E c \in IncomingChans, d \in OutgoingChans :
        /\ BothWrong(their_id, name_hash, recvd[c].req)
        /\ validated[c].kind = "InvalidUid"
        /\ BothWrong(their_id, name_hash, recvd[d].req)
        /\ validated[d].kind = "InvalidUid"

====
